---------------------------- MODULE Spec2Model ----------------------------
(***************************************************************************)
(* Model of the invoice pipeline (process_invoices.py) and of the remote   *)
(* sheet checker (validate_google_sheet.py).                               *)
(*                                                                         *)
(* Amounts are Python floats in the source.  Here an amount is an integer  *)
(* number of thousandths of a currency unit ("mills"): 100.01 is 100010,   *)
(* the tolerance 0.01 is 10, 0.005 is 5.  Arithmetic on this grid is       *)
(* exact; the rounding error of binary floating point is an input of the   *)
(* operations whose outcome it can decide (see FloatErr).                  *)
(*                                                                         *)
(* An optional value (Python None, or a missing mapping key) is the empty  *)
(* tuple; a present value v is the one-element tuple <<v>>.                *)
(* A text (Python str) whose characters matter is a tuple of one-character *)
(* strings; the empty text is <<>>.                                        *)
(***************************************************************************)
EXTENDS Integers, Sequences, FiniteSets, TLC

VARIABLES
    vdata, vtol, vres,                 \* validate_totals: argument, tol, result
    rnet, rvat, rres,                  \* _guess_vat_rate: arguments, result
    ments, mnames, mres,               \* _docai_find_first_money: entities, aliases, result
    doc, dres,                         \* parse_invoice_docai: document, outcome
    dane, poz, sres,                   \* validate_google_sheet main: ranges, verdict
    files, have_docai, dry_run,        \* run_once: the inbox, the configuration
    pc, fpos,                          \* run_once: position in the run
    yields, invoices, warned, output,  \* run_once: per-file results, list, result
    xinv, book                         \* write_to_excel: the invoices, the workbook

valVars  == <<vdata, vtol, vres>>
rateVars == <<rnet, rvat, rres>>
moneyVars == <<ments, mnames, mres>>
docVars == <<doc, dres>>
sheetVars == <<dane, poz, sres>>
runVars == <<files, have_docai, dry_run, pc, fpos, yields, invoices, warned, output>>
exportVars == <<xinv, book>>
vars == <<valVars, rateVars, moneyVars, docVars, sheetVars, runVars, exportVars>>

---------------------------------------------------------------------------
(* Optional values and Python truthiness                                   *)

None == <<>>
Some(v) == <<v>>
NotRun == <<>>

\* The parts of the state a check does not use stay as they are here.
ValIdle == vdata = None /\ vtol = 0 /\ vres = NotRun
RateIdle == rnet = None /\ rvat = None /\ rres = NotRun
MoneyIdle == ments = <<>> /\ mnames = <<>> /\ mres = NotRun
DocIdle == doc = None /\ dres = NotRun
SheetIdle == dane = <<>> /\ poz = <<>> /\ sres = NotRun
RunIdle ==
    /\ files = <<>> /\ have_docai = FALSE /\ dry_run = FALSE
    /\ pc = "idle" /\ fpos = 0
    /\ yields = <<>> /\ invoices = <<>> /\ warned = <<>> /\ output = NotRun
ExportIdle == xinv = <<>> /\ book = NotRun

\* Python `x or d` for an optional number: None and 0 are falsy.
OrElse(x, d) == IF x = None THEN d ELSE IF x[1] = 0 THEN d ELSE x[1]

Abs(x) == IF x < 0 THEN -x ELSE x

\* round(x, 2): one cent is 10 mills.
Cent == 10

\* Python round(x, 2) on the grid: to the nearest cent, ties to even.
Round2(x) ==
    LET f == x \div Cent
        r == x - f * Cent
    IN  IF 2 * r < Cent THEN f * Cent
        ELSE IF 2 * r > Cent THEN (f + 1) * Cent
        ELSE IF f % 2 = 0 THEN f * Cent ELSE (f + 1) * Cent

RECURSIVE SumSeq(_)
SumSeq(s) == IF s = <<>> THEN 0 ELSE Head(s) + SumSeq(Tail(s))

---------------------------------------------------------------------------
(* Floating point.  A float result can differ from the exact one by a      *)
(* rounding error far below the grid; it decides a comparison only when    *)
(* the exact operands are equal.  The sign of that error (-1, 0, 1) is an  *)
(* input of each operation that compares a computed amount with a bound.   *)

FloatErr == {-1, 0, 1}

\* computed > bound, where computed = exact + err * (something tiny)
FloatGt(exact, bound, err) == exact > bound \/ (exact = bound /\ err > 0)

\* computed < bound
FloatLt(exact, bound, err) == exact < bound \/ (exact = bound /\ err < 0)

---------------------------------------------------------------------------
(* validate_totals (process_invoices.py, 92-110)                           *)

\* tol: float = 0.01
DefaultTol == 10

Dims == {"net", "vat", "gross"}
DimErrs == [Dims -> FloatErr]
NoErr == [d \in Dims |-> 0]

\* float(i.get(k, 0) or 0) summed over the items, for one key.
ItemSum(items, k) == SumSeq([n \in 1..Len(items) |-> OrElse(items[n][k], 0)])

\* f"Mismatch net: {net_sum:.2f} vs {total_net:.2f}": the dimension and the
\* two amounts shown to 2 decimal places.
MismatchMsg(dim, sum, total) ==
    [dim |-> dim, sum |-> Round2(sum), total |-> Round2(total)]

\* Mutant: an elif chain, which reports the first mismatch only.
ValidateTotalsFirstOnly(data, tol, fp) ==
    LET net_sum == ItemSum(data.line_items, "net")
        vat_sum == ItemSum(data.line_items, "vat")
        gross_sum == ItemSum(data.line_items, "gross")
        total_net == OrElse(data.total_net, 0)
        total_vat == OrElse(data.total_vat, 0)
        total_gross == OrElse(data.total_gross, 0)
        errors ==
            IF FloatGt(Abs(net_sum - total_net), tol, fp["net"])
            THEN <<MismatchMsg("net", net_sum, total_net)>>
            ELSE IF FloatGt(Abs(vat_sum - total_vat), tol, fp["vat"])
            THEN <<MismatchMsg("vat", vat_sum, total_vat)>>
            ELSE IF FloatGt(Abs(gross_sum - total_gross), tol, fp["gross"])
            THEN <<MismatchMsg("gross", gross_sum, total_gross)>>
            ELSE <<>>
    IN  [ok |-> Len(errors) = 0, errors |-> errors]

\* fp: the float rounding direction of each of the three differences.
ValidateTotals(data, tol, fp) ==
    LET total_net == OrElse(data.total_net, 0)
        total_vat == OrElse(data.total_vat, 0)
        total_gross == OrElse(data.total_gross, 0)
        items == data.line_items
        net_sum == ItemSum(items, "net")
        vat_sum == ItemSum(items, "vat")
        gross_sum == ItemSum(items, "gross")
        e1 == IF FloatGt(Abs(net_sum - total_net), tol, fp["net"])
              THEN <<MismatchMsg("net", net_sum, total_net)>> ELSE <<>>
        e2 == IF FloatGt(Abs(vat_sum - total_vat), tol, fp["vat"])
              THEN <<MismatchMsg("vat", vat_sum, total_vat)>> ELSE <<>>
        e3 == IF FloatGt(Abs(gross_sum - total_gross), tol, fp["gross"])
              THEN <<MismatchMsg("gross", gross_sum, total_gross)>> ELSE <<>>
        errors == e1 \o e2 \o e3
    IN  [ok |-> Len(errors) = 0, errors |-> errors]

---------------------------------------------------------------------------
(* _guess_vat_rate (process_invoices.py, 379-390)                          *)
(* A rate is an integer number of hundredths of a percent: 23.0 is 2300.   *)

\* for cand in (23.0, 8.0, 5.0, 0.0)
RateCands == <<2300, 800, 500, 0>>

\* r = (vat / net) * 100.0 for net /= 0: floor q and remainder r of
\* |vat| * 10000 / |net| (hundredths of a percent), the sign apart, and the
\* rounding direction err of the computed quotient.
RawRate(net, vat, err) ==
    LET n == Abs(net)
        a == Abs(vat) * 100
        q1 == a \div n
        r1 == a % n
    IN  [q |-> q1 * 100 + (r1 * 100) \div n,
         r |-> (r1 * 100) % n,
         n |-> n,
         neg |-> (vat < 0) /= (net < 0),
         err |-> err]

\* Mutant: r - cand < 1.0, the abs forgotten.
NearCandNoAbs(raw, cand) ==
    IF raw.neg /\ (raw.q > 0 \/ raw.r > 0)
    THEN TRUE
    ELSE raw.q < cand + 100

\* abs(r - cand) < 1.0, cand >= 0.  Exactly 1.0 away, the computed r is
\* inside the band only when its rounding error points towards cand.
NearCand(raw, cand) ==
    IF raw.neg /\ (raw.q > 0 \/ raw.r > 0)
    THEN \/ cand + raw.q < 100
         \/ (cand + raw.q = 100 /\ raw.r = 0 /\ raw.err > 0)
    ELSE /\ \/ raw.q < cand + 100
            \/ (raw.q = cand + 100 /\ raw.r = 0 /\ raw.err < 0)
         /\ \/ raw.q > cand - 100
            \/ (raw.q = cand - 100 /\ (raw.r > 0 \/ raw.err > 0))

\* round(r, 2): to the nearest, an exact tie going where the rounding error
\* points, or to even.
RoundRate(raw) ==
    LET e == IF raw.neg THEN -raw.err ELSE raw.err
        up == IF 2 * raw.r > raw.n THEN 1
              ELSE IF 2 * raw.r < raw.n THEN 0
              ELSE IF e > 0 THEN 1
              ELSE IF e < 0 THEN 0
              ELSE raw.q % 2
        m == raw.q + up
    IN  IF raw.neg THEN -m ELSE m

\* The first candidate, in the order of the loop, that raw is near to.
RECURSIVE FirstCand(_, _)
FirstCand(raw, k) ==
    IF k > Len(RateCands) THEN None
    ELSE IF NearCand(raw, RateCands[k]) THEN Some(RateCands[k])
    ELSE FirstCand(raw, k + 1)

\* net and vat are optional amounts (vat is None when absent); err is the
\* rounding direction of the computed (vat / net) * 100.0.
GuessVatRate(net, vat, err) ==
    IF OrElse(net, 0) /= 0 /\ vat /= None
    THEN LET raw == RawRate(net[1], vat[1], err)
             c == FirstCand(raw, 1)
         IN  IF c /= None THEN c[1] ELSE RoundRate(raw)
    ELSE 0

---------------------------------------------------------------------------
(* Texts and number parsing                                                *)

DigitChars == <<"0", "1", "2", "3", "4", "5", "6", "7", "8", "9">>
IsDigit(c) == \E d \in 1..10 : DigitChars[d] = c
DigitVal(c) == (CHOOSE d \in 1..10 : DigitChars[d] = c) - 1

\* str.strip(): leading and trailing blanks removed.
RECURSIVE LStrip(_)
LStrip(s) == IF s /= <<>> /\ Head(s) = " " THEN LStrip(Tail(s)) ELSE s
RECURSIVE RStrip(_)
RStrip(s) ==
    IF s /= <<>> /\ s[Len(s)] = " " THEN RStrip(SubSeq(s, 1, Len(s) - 1)) ELSE s
Strip(s) == RStrip(LStrip(s))

\* s.replace(",", ".")
CommaToDot(s) == [n \in 1..Len(s) |-> IF s[n] = "," THEN "." ELSE s[n]]

\* s.replace(" ", "")
IsNotBlank(c) == c /= " "
DropBlanks(s) == SelectSeq(s, IsNotBlank)

\* "".join(ch for ch in s if (ch.isdigit() or ch in ".-"))
IsNumChar(c) == IsDigit(c) \/ c = "." \/ c = "-"
KeepNumChars(s) == SelectSeq(s, IsNumChar)

RECURSIVE DigitsVal(_)
DigitsVal(ds) ==
    IF ds = <<>> THEN 0
    ELSE DigitsVal(SubSeq(ds, 1, Len(ds) - 1)) * 10 + DigitVal(ds[Len(ds)])

\* The fraction digits as mills; digits past the third are below the grid.
FracMills(fs) ==
    (IF Len(fs) >= 1 THEN 100 * DigitVal(fs[1]) ELSE 0)
    + (IF Len(fs) >= 2 THEN 10 * DigitVal(fs[2]) ELSE 0)
    + (IF Len(fs) >= 3 THEN DigitVal(fs[3]) ELSE 0)

\* float(s) for a text of digits, '.', '-', '+', blanks and other characters:
\* surrounding blanks are ignored, then an optional sign, then digits with at
\* most one '.', at least one digit; anything else raises ValueError (None).
Signed(t) == t /= <<>> /\ (t[1] = "-" \/ t[1] = "+")

WellFormed(body) ==
    /\ \A n \in 1..Len(body) : IsDigit(body[n]) \/ body[n] = "."
    /\ Cardinality({n \in 1..Len(body) : body[n] = "."}) <= 1
    /\ \E n \in 1..Len(body) : IsDigit(body[n])

\* The place of the point, or one past the end.
DotAt(body) ==
    IF \E n \in 1..Len(body) : body[n] = "."
    THEN CHOOSE n \in 1..Len(body) : body[n] = "."
    ELSE Len(body) + 1

Magnitude(body, dot) ==
    DigitsVal(SubSeq(body, 1, dot - 1)) * 1000
    + FracMills(SubSeq(body, dot + 1, Len(body)))

FloatOfBody(body, negative) ==
    IF ~WellFormed(body) THEN None
    ELSE IF negative THEN Some(-Magnitude(body, DotAt(body)))
    ELSE Some(Magnitude(body, DotAt(body)))

FloatOfStripped(t) ==
    FloatOfBody(IF Signed(t) THEN Tail(t) ELSE t, Signed(t) /\ t[1] = "-")

PyFloat(s) == FloatOfStripped(Strip(s))

\* The text fallback of the money lookups and _safe_money: comma to point,
\* every character but digits, '.' and '-' dropped, then float().
SafeMoney(s) == PyFloat(KeepNumChars(CommaToDot(s)))

\* Python `s or d` for a text: the empty text is falsy.
OrText(s, d) == IF s = <<>> THEN d ELSE s

---------------------------------------------------------------------------
(* Entities of the extraction service's document                           *)
(* An entity is [type_, mention_text, normalized_value, properties];       *)
(* normalized_value is None when the object has no such attribute (the     *)
(* repository's test doubles), else <<[text, money_value]>>, money_value   *)
(* being None when unset (falsy) and else <<[units, nanos]>>.              *)

\* str.lower() on the type tags of the model: every tag is lower-case but
\* these.
Lower(t) ==
    CASE t = "Net_Amount" -> "net_amount"
      [] t = "SUBTOTAL_AMOUNT" -> "subtotal_amount"
      [] t = "Total_Amount" -> "total_amount"
      [] t = "LineItem" -> "lineitem"
      [] t = "lineItem" -> "lineitem"
      [] OTHER -> t

LowerAll(names) == {Lower(names[n]) : n \in 1..Len(names)}

TypeMatches(ent, names) == Lower(ent.type_) \in LowerAll(names)

\* nanos per mill
NanosPerMill == 1000000

\* (mv.units or 0) + (mv.nanos or 0) / 1e9
MoneyAmount(mv) == mv.units * 1000 + mv.nanos \div NanosPerMill

\* ent.normalized_value and ent.normalized_value.money_value; a missing
\* attribute raises inside the try and counts as no structured value.
HasMoney(ent) ==
    /\ ent.normalized_value /= None
    /\ ent.normalized_value[1].money_value /= None

\* One matching entity's amount (267-285 and 362-377, the loop body): the
\* structured value when there is one, else the parsed text, else None.
EntMoney(ent) ==
    IF HasMoney(ent)
    THEN Some(MoneyAmount(ent.normalized_value[1].money_value[1]))
    ELSE SafeMoney(ent.mention_text)

\* Mutant: a matching entity that yields nothing ends the search.
RECURSIVE FirstMoneyNoContinue(_, _)
FirstMoneyNoContinue(ents, names) ==
    IF ents = <<>> THEN None
    ELSE IF TypeMatches(Head(ents), names) THEN EntMoney(Head(ents))
    ELSE FirstMoneyNoContinue(Tail(ents), names)

\* The loop of _docai_find_first_money and of _entity_child_money.
RECURSIVE FirstMoney(_, _)
FirstMoney(ents, names) ==
    IF ents = <<>> THEN None
    ELSE IF TypeMatches(Head(ents), names) /\ EntMoney(Head(ents)) /= None
    THEN EntMoney(Head(ents))
    ELSE FirstMoney(Tail(ents), names)

DocaiFindFirstMoney(d, field_names) == FirstMoney(d.entities, field_names)

EntityChildMoney(ent, names) == FirstMoney(ent.properties, names)

---------------------------------------------------------------------------
(* Text lookups (process_invoices.py, 257-265 and 344-350)                 *)
(* A lookup that can raise returns [raised, val].                          *)

Raised == [raised |-> TRUE, val |-> None]
Ok(v) == [raised |-> FALSE, val |-> v]

\* (ent.mention_text or ent.normalized_value.text or "").strip(): reading
\* normalized_value of an object without that attribute raises.
EntTextRaises(ent) == ent.mention_text = <<>> /\ ent.normalized_value = None

EntText(ent) ==
    IF ent.mention_text /= <<>> THEN Strip(ent.mention_text)
    ELSE Strip(ent.normalized_value[1].text)

\* The loop of _docai_find_first_text and of _entity_child_text: the first
\* non-empty stripped text of a matching entity, or None.
RECURSIVE FirstText(_, _)
FirstText(ents, names) ==
    IF ents = <<>> THEN Ok(None)
    ELSE IF ~TypeMatches(Head(ents), names) THEN FirstText(Tail(ents), names)
    ELSE IF EntTextRaises(Head(ents)) THEN Raised
    ELSE IF EntText(Head(ents)) /= <<>> THEN Ok(Some(EntText(Head(ents))))
    ELSE FirstText(Tail(ents), names)

DocaiFindFirstText(d, field_names) == FirstText(d.entities, field_names)

EntityChildText(ent, names) == FirstText(ent.properties, names)

\* _entity_child_float (352-360)
FloatOfText(t) ==
    IF t.raised THEN Raised
    ELSE IF t.val = None THEN Ok(None)
    ELSE Ok(SafeMoney(t.val[1]))

EntityChildFloat(ent, names) == FloatOfText(EntityChildText(ent, names))

---------------------------------------------------------------------------
(* _docai_parse_line_items (process_invoices.py, 287-342)                  *)
(* A LineItem is a record of a description and six optional amounts; the   *)
(* quantity is in thousandths, the vat_rate in hundredths of a percent.    *)

T_LineItem == <<"(", "l", "i", "n", "e", " ", "i", "t", "e", "m", ")">>
T_NoItems == <<"(", "n", "o", "-", "i", "t", "e", "m", "s", ")">>

\* qty * unit_price on the grid (a in thousandths, split to stay in range)
Times(a, b) == (a \div 1000) * b + ((a % 1000) * b) \div 1000

LineItem(description, quantity, unit_price, net, vat_rate, vat, gross) ==
    [description |-> description, quantity |-> quantity,
     unit_price |-> unit_price, net |-> net, vat_rate |-> vat_rate,
     vat |-> vat, gross |-> gross]

\* (ent.type_ or "").lower() in {"line_item", "lineItem", "lineitem"}
IsLineItemEnt(ent) == Lower(ent.type_) \in {"line_item", "lineItem", "lineitem"}

\* The item of one line_item entity from its looked-up children (293-308):
\* d, q the description and quantity lookups, text the entity's own text,
\* unit, net_found, tax, amount the money lookups.
ItemOfFields(d, q, text, unit, net_found, tax, amount, err) ==
    LET desc == IF d.val /= None THEN d.val[1] ELSE text
        qty == OrElse(q.val, 1000)
        unit_price == OrElse(unit, 0)
        net == OrElse(net_found, Times(qty, unit_price))
        vat == OrElse(tax, 0)
        gross == OrElse(amount, net + vat)
        vat_rate == GuessVatRate(Some(net), Some(vat), err)
    IN  IF d.raised \/ q.raised THEN Raised
        ELSE Ok(LineItem(OrText(desc, T_LineItem), Some(qty), Some(unit_price),
                         Some(net), Some(vat_rate), Some(vat), Some(gross)))

\* One line_item entity (293-308).
ItemFromEntity(ent, err) ==
    ItemOfFields(EntityChildText(ent, <<"description", "item_description">>),
                 EntityChildFloat(ent, <<"quantity", "qty">>),
                 Strip(ent.mention_text),
                 EntityChildMoney(ent, <<"unit_price", "unit_price_amount">>),
                 EntityChildMoney(ent, <<"net_amount", "subtotal_amount">>),
                 EntityChildMoney(ent, <<"tax_amount">>),
                 EntityChildMoney(ent, <<"amount", "total_amount">>), err)

\* out.append(...): a raise anywhere ends the whole extraction.
Appended(first, rest) ==
    IF first.raised \/ rest.raised THEN Raised
    ELSE Ok(<<first.val>> \o rest.val)

\* 1) the line_item entities, in document order (291-308)
RECURSIVE ItemsFromEntities(_, _)
ItemsFromEntities(ents, err) ==
    IF ents = <<>> THEN Ok(<<>>)
    ELSE IF ~IsLineItemEnt(Head(ents)) THEN ItemsFromEntities(Tail(ents), err)
    ELSE Appended(ItemFromEntity(Head(ents), err),
                  ItemsFromEntities(Tail(ents), err))

\* _layout_text (392-399): the segments of doc.text the layout points at.
\* getattr(layout, "text_anchor", {}).get("text_segments", []): a layout
\* without the attribute has no text; a text_anchor that is a mapping gives
\* its segments; any other object (a message of the service's library) has
\* no get and the call raises.
LayoutRaises(layout) ==
    layout.text_anchor /= None /\ ~layout.text_anchor[1].is_mapping

RECURSIVE SegmentsText(_, _)
SegmentsText(text, segs) ==
    IF segs = <<>> THEN <<>>
    ELSE SubSeq(text, Head(segs).start_index + 1, Head(segs).end_index)
         \o SegmentsText(text, Tail(segs))

LayoutText(d, layout) ==
    IF layout.text_anchor = None THEN <<>>
    ELSE SegmentsText(d.text, layout.text_anchor[1].text_segments)

RowRaises(row) == \E n \in 1..Len(row.cells) : LayoutRaises(row.cells[n].layout)

RECURSIVE JoinCells(_, _)
JoinCells(d, cells) ==
    IF cells = <<>> THEN <<>>
    ELSE LayoutText(d, Head(cells).layout) \o JoinCells(d, Tail(cells))

\* Mutant: each cell's own text.
RowTextsPerCell(d, row) ==
    [n \in 1..Len(row.cells) |-> LayoutText(d, row.cells[n].layout)]

\* texts = ["".join(_layout_text(doc, cell.layout) for cell in row.cells)
\*          for cell in row.cells]  (322): the inner loop variable hides the
\* outer one, so every element is the text of the whole row.
RowTexts(d, row) == [n \in 1..Len(row.cells) |-> JoinCells(d, row.cells)]

Nth(nums, n) == IF Len(nums) >= n THEN nums[n] ELSE None

\* The item of a row from its description and numbers (328-339): skip, an
\* item, or a raise (net + None).
ItemOfNums(desc, nums, err) ==
    LET qty == OrElse(nums[1], 1000)
        unit_price == OrElse(Nth(nums, 2), 0)
        net == OrElse(Nth(nums, 3), Times(qty, unit_price))
        vat == IF Len(nums) > 3 THEN nums[4] ELSE Some(0)
        gross == IF Len(nums) > 4 THEN nums[5] ELSE Some(net + vat[1])
    IN  IF \A n \in 1..Len(nums) : nums[n] = None THEN [kind |-> "skip"]
        ELSE IF Len(nums) <= 4 /\ vat = None THEN [kind |-> "raise"]
        ELSE [kind |-> "item",
              item |-> LineItem(desc, Some(qty), Some(unit_price), Some(net),
                                Some(GuessVatRate(Some(net), vat, err)), vat, gross)]

\* if not texts: continue (323-324), then the description and the numbers
\* (326-327).
ItemOfTexts(texts, err) ==
    IF texts = <<>> THEN [kind |-> "skip"]
    ELSE ItemOfNums(OrText(Strip(texts[1]), T_LineItem),
                    [n \in 1..(Len(texts) - 1) |-> SafeMoney(texts[n + 1])], err)

\* One body row (322-339); a layout that raises ends the table.
RowItem(d, row, err) ==
    IF RowRaises(row) THEN [kind |-> "raise"]
    ELSE ItemOfTexts(RowTexts(d, row), err)

\* What a row adds to the items of the rows after it.
Following(r, rest) ==
    IF r.kind = "raise" THEN <<>>
    ELSE IF r.kind = "skip" THEN rest
    ELSE <<r.item>> \o rest

\* The body rows of one table, up to the first raise (321-341).
RECURSIVE BodyItems(_, _, _)
BodyItems(d, rows, err) ==
    IF rows = <<>> THEN <<>>
    ELSE Following(RowItem(d, Head(rows), err), BodyItems(d, Tail(rows), err))

\* One table (317-341): the header texts are computed first (318-319, the
\* result is not used); a raise there or later ends the table and keeps
\* what it gave so far.
TableItems(d, table, err) ==
    IF \E n \in 1..Len(table.header_rows) : RowRaises(table.header_rows[n])
    THEN <<>>
    ELSE BodyItems(d, table.body_rows, err)

RECURSIVE TablesItems(_, _, _)
TablesItems(d, tables, err) ==
    IF tables = <<>> THEN <<>>
    ELSE TableItems(d, Head(tables), err) \o TablesItems(d, Tail(tables), err)

\* 2) the tables of every page (315-341)
RECURSIVE PagesItems(_, _, _)
PagesItems(d, pages, err) ==
    IF pages = <<>> THEN <<>>
    ELSE TablesItems(d, Head(pages).tables, err) \o PagesItems(d, Tail(pages), err)

\* if out: return out (310-311), else what the tables give
ItemsOrTables(out, d, err) ==
    IF out.raised THEN Raised
    ELSE IF out.val /= <<>> THEN out
    ELSE Ok(PagesItems(d, d.pages, err))

DocaiParseLineItems(d, err) ==
    ItemsOrTables(ItemsFromEntities(d.entities, err), d, err)

---------------------------------------------------------------------------
(* parse_invoice_docai (process_invoices.py, 158-225), from the service's  *)
(* document on                                                             *)

T_INV == <<"I", "N", "V", "-">>
T_PLN == <<"P", "L", "N">>
\* datetime.now().date().isoformat()
T_Today == <<"2", "0", "2", "6", "-", "0", "1", "-", "0", "1">>

Invoice(number, issue_date, seller, buyer, currency, totals, line_items) ==
    [number |-> number, issue_date |-> issue_date, seller |-> seller,
     buyer |-> buyer, currency |-> currency, total_net |-> totals.net,
     total_vat |-> totals.vat, total_gross |-> totals.gross,
     line_items |-> line_items]

\* The placeholder item (207-209).
NoItemsLine(total_net, total_vat, total_gross, err) ==
    LineItem(T_NoItems, Some(1000), Some(total_gross),
             Some(IF total_net /= 0 THEN total_net ELSE total_gross),
             Some(GuessVatRate(Some(total_net), Some(total_vat), err)),
             Some(total_vat), Some(total_gross))

\* Lines 189-225 on the resolved fields: num, date, seller, buyer, cur are
\* the text lookups, net, vat, gross the money lookups, parsed the
\* extractor's result; stem is file_path.stem.  None when anything raised.
AssembleInvoice(num, date, seller, buyer, cur, net, vat, gross, parsed, stem, err) ==
    LET number == IF num.val /= None THEN num.val[1] ELSE T_INV \o stem
        issue_date == IF date.val /= None THEN date.val[1] ELSE T_Today
        currency == IF cur.val /= None THEN cur.val[1] ELSE T_PLN
        total_net == OrElse(net, 0)
        total_vat == OrElse(vat, 0)
        total_gross == OrElse(gross, IF total_net /= 0 \/ total_vat /= 0
                                     THEN total_net + total_vat ELSE 0)
        items == IF parsed.val /= <<>> THEN parsed.val
                 ELSE <<NoItemsLine(total_net, total_vat, total_gross, err)>>
    IN  IF num.raised \/ date.raised \/ seller.raised \/ buyer.raised
           \/ cur.raised \/ parsed.raised
        THEN None
        ELSE Some(Invoice(number, issue_date,
                          IF seller.val /= None THEN seller.val[1] ELSE <<>>,
                          IF buyer.val /= None THEN buyer.val[1] ELSE <<>>,
                          currency,
                          [net |-> Round2(total_net), vat |-> Round2(total_vat),
                           gross |-> Round2(total_gross)],
                          items))

ParseInvoiceFields(d, stem, err) ==
    AssembleInvoice(DocaiFindFirstText(d, <<"invoice_id", "invoice_number">>),
                    DocaiFindFirstText(d, <<"invoice_date", "issue_date">>),
                    DocaiFindFirstText(d, <<"supplier_name", "seller", "supplier">>),
                    DocaiFindFirstText(d, <<"customer_name", "buyer", "customer">>),
                    DocaiFindFirstText(d, <<"currency">>),
                    DocaiFindFirstMoney(d, <<"net_amount", "subtotal_amount">>),
                    DocaiFindFirstMoney(d, <<"total_tax_amount", "tax_amount">>),
                    DocaiFindFirstMoney(d, <<"total_amount">>),
                    DocaiParseLineItems(d, err), stem, err)

\* The mapping run_once hands to validate_totals (477-482).
TotalsData(invoice) ==
    [total_net |-> Some(invoice.total_net), total_vat |-> Some(invoice.total_vat),
     total_gross |-> Some(invoice.total_gross),
     line_items |-> [n \in 1..Len(invoice.line_items) |->
                        [net |-> invoice.line_items[n].net,
                         vat |-> invoice.line_items[n].vat,
                         gross |-> invoice.line_items[n].gross]]]

---------------------------------------------------------------------------
(* Inputs of the validate_totals check                                     *)

MaxItems == 2

SeqsUpTo(S, n) == UNION {[1..k -> S] : k \in 0..n}

ValNet == {None, Some(100000), Some(100010), Some(50000)}
ValVat == {None, Some(23000)}
ValGross == {Some(123000), Some(61500)}
ValItems == [net : ValNet, vat : ValVat, gross : ValGross]
ValTols == {5, DefaultTol, 20}
ValData ==
    [total_net : {None, Some(100000)}, total_vat : {Some(23000)},
     total_gross : {None, Some(123000)},
     line_items : SeqsUpTo(ValItems, MaxItems)]

InitValidate ==
    /\ vdata \in ValData
    /\ vtol \in ValTols
    /\ vres = NotRun
    /\ RateIdle /\ MoneyIdle /\ DocIdle /\ SheetIdle /\ RunIdle /\ ExportIdle

Validate ==
    /\ vres = NotRun
    /\ vdata /= None
    /\ \E fp \in DimErrs : vres' = Some(ValidateTotals(vdata, vtol, fp))
    /\ UNCHANGED <<vdata, vtol, rateVars, moneyVars, docVars, sheetVars, runVars, exportVars>>

NextValidate == Validate

SpecValidate == InitValidate /\ [][NextValidate]_vars

---------------------------------------------------------------------------
(* C1                                                                      *)

\* The sum of one field over the items, a missing field counting as 0.
RECURSIVE FieldTotal(_, _)
FieldTotal(items, k) ==
    IF items = <<>> THEN 0
    ELSE (IF Head(items)[k] = None THEN 0 ELSE Head(items)[k][1])
         + FieldTotal(Tail(items), k)

DeclaredTotal(data, k) == IF data[k] = None THEN 0 ELSE data[k][1]

TotalKey(d) == IF d = "net" THEN "total_net"
               ELSE IF d = "vat" THEN "total_vat" ELSE "total_gross"

DimDiff(data, d) ==
    Abs(FieldTotal(data.line_items, d) - DeclaredTotal(data, TotalKey(d)))

Reported(errors, d) == \E n \in 1..Len(errors) : errors[n].dim = d

MsgDims(errors) == [n \in 1..Len(errors) |-> errors[n].dim]

DimsInOrder(errors) ==
    (IF Reported(errors, "net") THEN <<"net">> ELSE <<>>)
    \o (IF Reported(errors, "vat") THEN <<"vat">> ELSE <<>>)
    \o (IF Reported(errors, "gross") THEN <<"gross">> ELSE <<>>)

\* C1: validate_totals sums net, vat and gross over the items (a missing
\* field counting as 0); a dimension whose difference from the declared total
\* is above tol gets exactly one message and one below tol gets none (at a
\* difference equal to tol the float comparison decides), pass is true
\* exactly when there is no message, and a 0.01 net difference passes at tol
\* 0.02 and fails at tol 0.005.
C1_ValidateTotals ==
    vres /= NotRun =>
        LET r == vres[1]
        IN  /\ \A d \in Dims :
                /\ DimDiff(vdata, d) > vtol => Reported(r.errors, d)
                /\ DimDiff(vdata, d) < vtol => ~Reported(r.errors, d)
            /\ MsgDims(r.errors) = DimsInOrder(r.errors)
            /\ Len(r.errors) \in 0..3
            /\ r.ok = (r.errors = <<>>)
            /\ (DimDiff(vdata, "net") = 10 /\ vtol = 20) => ~Reported(r.errors, "net")
            /\ (DimDiff(vdata, "net") = 10 /\ vtol = 5) => (~r.ok /\ r.errors[1].dim = "net")

\* Net matches, vat and gross do not: exactly two messages, with a missing
\* per-item field counted as 0.
C1_Witness ==
    /\ vres /= NotRun
    /\ Len(vdata.line_items) > 0
    /\ \E n \in 1..Len(vdata.line_items) : vdata.line_items[n].vat = None
    /\ DimDiff(vdata, "net") < vtol
    /\ MsgDims(vres[1].errors) = <<"vat", "gross">>

---------------------------------------------------------------------------
(* Inputs of the _guess_vat_rate check                                     *)

\* vat amounts from -2.00 to 30.00 in steps of 0.10
RateVats == {None} \cup {Some(k * 100) : k \in -20..300}
RateNets == {None, Some(0), Some(100000), Some(-100000), Some(3000), Some(30000)}

InitRate ==
    /\ rnet \in RateNets
    /\ rvat \in RateVats
    /\ rres = NotRun
    /\ ValIdle /\ MoneyIdle /\ DocIdle /\ SheetIdle /\ RunIdle /\ ExportIdle

GuessRate ==
    /\ rres = NotRun
    /\ \E err \in FloatErr : rres' = Some(GuessVatRate(rnet, rvat, err))
    /\ UNCHANGED <<rnet, rvat, valVars, moneyVars, docVars, sheetVars, runVars, exportVars>>

NextRate == GuessRate

SpecRate == InitRate /\ [][NextRate]_vars

---------------------------------------------------------------------------
(* C9                                                                      *)

CandSet == {RateCands[k] : k \in 1..Len(RateCands)}

\* |vat / net * 100 - cand| scaled by 100 * |net|, and 1.0 on that scale.
RateDist(net, vat, cand) == Abs(vat * 10000 - cand * net)
RateOne(net) == 100 * Abs(net)

RateDefined == rnet /= None /\ rvat /= None /\ (rnet /= None => rnet[1] /= 0)

\* rate * |net| is the nearest multiple of 0.01 percent to the raw rate.
IsRounded(net, vat, rate) == 2 * RateDist(net, vat, rate) <= Abs(net)

\* C9 (amended): infer_rate returns 0 when net is zero or absent or vat is
\* absent; otherwise it returns the candidate nearest to raw = vat/net*100
\* when raw is less than 1.0 away from a candidate, and raw rounded to 2
\* decimal places when every candidate is more than 1.0 away; exactly 1.0
\* away from a candidate it returns the rounded raw, or that candidate when
\* float rounding of the quotient puts it inside the band.
C9_StrictSnap ==
    rres /= NotRun =>
        IF ~RateDefined THEN rres[1] = 0
        ELSE LET net == rnet[1]
                 vat == rvat[1]
                 near == {c \in CandSet : RateDist(net, vat, c) < RateOne(net)}
                 edge == {c \in CandSet : RateDist(net, vat, c) = RateOne(net)}
             IN  IF near /= {}
                 THEN /\ rres[1] \in near
                      /\ \A c \in CandSet :
                            RateDist(net, vat, rres[1]) <= RateDist(net, vat, c)
                 ELSE IsRounded(net, vat, rres[1]) \/ rres[1] \in edge

\* C9 as stated: a candidate within 1.0 (1.0 itself included) is returned.
C9_InclusiveSnap ==
    rres /= NotRun =>
        IF ~RateDefined THEN rres[1] = 0
        ELSE LET net == rnet[1]
                 vat == rvat[1]
                 near == {c \in CandSet : RateDist(net, vat, c) <= RateOne(net)}
             IN  IF near /= {}
                 THEN /\ rres[1] \in near
                      /\ \A c \in CandSet :
                            RateDist(net, vat, rres[1]) <= RateDist(net, vat, c)
                 ELSE IsRounded(net, vat, rres[1])

\* net = 100, vat = 22.6 has been snapped to 23.
C9_Witness ==
    /\ rres /= NotRun
    /\ rnet = Some(100000) /\ rvat = Some(22600)
    /\ rres[1] = 2300

---------------------------------------------------------------------------
(* Inputs of the money resolution check                                    *)

MaxEnts == 2

T_99 == <<"9", "9">>
T_abc == <<"a", "b", "c">>
T_1c5 == <<"1", ",", "5">>

NoAttr == None
NoMoney == Some([text |-> <<>>, money_value |-> None])
Money(units, nanos) ==
    Some([text |-> <<>>, money_value |-> Some([units |-> units, nanos |-> nanos])])

MoneyEnts ==
    [type_ : {"Net_Amount", "subtotal_amount", "currency"},
     mention_text : {T_99, T_abc, T_1c5},
     normalized_value : {NoAttr, NoMoney, Money(100, 0)},
     properties : {<<>>}]

MoneyNames == {<<"net_amount", "subtotal_amount">>, <<"SUBTOTAL_AMOUNT", "net_amount">>}

InitMoney ==
    /\ ments \in SeqsUpTo(MoneyEnts, MaxEnts)
    /\ mnames \in MoneyNames
    /\ mres = NotRun
    /\ ValIdle /\ RateIdle /\ DocIdle /\ SheetIdle /\ RunIdle /\ ExportIdle

ResolveMoney ==
    /\ mres = NotRun
    /\ mres' = Some(DocaiFindFirstMoney([entities |-> ments], mnames))
    /\ UNCHANGED <<ments, mnames, valVars, rateVars, docVars, sheetVars, runVars, exportVars>>

NextMoney == ResolveMoney

SpecMoney == InitMoney /\ [][NextMoney]_vars

---------------------------------------------------------------------------
(* C7                                                                      *)

\* The tag equals an alias, letter case apart.
TagIsAlias(ent, names) == \E n \in 1..Len(names) : Lower(names[n]) = Lower(ent.type_)

Structured(ent) ==
    IF ent.normalized_value = None THEN None
    ELSE IF ent.normalized_value[1].money_value = None THEN None
    ELSE LET mv == ent.normalized_value[1].money_value[1]
         IN  Some(mv.units * 1000 + mv.nanos \div 1000000)

\* What one entity yields: its structured value when present, else its
\* parsed text, else nothing.
Yield(ent) == IF Structured(ent) /= None THEN Structured(ent)
              ELSE SafeMoney(ent.mention_text)

Yielding(ents, names) ==
    {n \in 1..Len(ents) : TagIsAlias(ents[n], names) /\ Yield(ents[n]) /= None}

FirstYield(ents, names) ==
    IF Yielding(ents, names) = {} THEN None
    ELSE LET first == CHOOSE n \in Yielding(ents, names) :
                          \A m \in Yielding(ents, names) : n <= m
         IN  Yield(ents[first])

Reverse(s) == [n \in 1..Len(s) |-> s[Len(s) + 1 - n]]

\* C7: money resolution returns what the first entity in document order
\* yields among those whose tag matches an alias case-insensitively and that
\* yield a value, whatever the order of the aliases; an entity's structured
\* money value is preferred to its text; a matching entity that yields
\* nothing is passed over; the result is absent only when no matching entity
\* yields a value.
C7_FirstMoney ==
    mres /= NotRun =>
        /\ mres[1] = FirstYield(ments, mnames)
        /\ mres[1] = FirstYield(ments, Reverse(mnames))
        /\ (mres[1] = None) = (Yielding(ments, mnames) = {})

\* The first matching entity has neither a structured value nor a parsable
\* text; the second has the text "99" and the structured value 100, and
\* 100.0 is returned.
C7_Witness ==
    /\ mres /= NotRun
    /\ Len(ments) = 2
    /\ TagIsAlias(ments[1], mnames) /\ Yield(ments[1]) = None
    /\ ments[2].type_ = "Net_Amount"
    /\ ments[2].mention_text = T_99 /\ Structured(ments[2]) = Some(100000)
    /\ mres[1] = Some(100000)

---------------------------------------------------------------------------
(* Documents handed to the extraction                                      *)

MaxLineEnts == 1
MaxRows == 2

Ent(type_, mention_text, normalized_value, properties) ==
    [type_ |-> type_, mention_text |-> mention_text,
     normalized_value |-> normalized_value, properties |-> properties]

\* An entity of the service: a text, no structured value.
Leaf(type_, text) == Ent(type_, text, NoMoney, <<>>)
\* An entity of the repository's test doubles: no normalized_value at all.
MockLeaf(type_, text) == Ent(type_, text, NoAttr, <<>>)

T_Item == <<"I", "t", "e", "m">>
T_FV1 == <<"F", "V", "1">>
T_f1 == <<"f", "1">>

HdrNet ==
    {<<>>, <<Leaf("net_amount", <<"1", "0", "0">>)>>,
     <<Ent("Net_Amount", <<>>, Money(100, 4000000), <<>>)>>}
HdrVat == {<<>>, <<Leaf("total_tax_amount", <<"2", "3">>)>>}
HdrGross ==
    {<<>>, <<Leaf("total_amount", <<"1", "2", "3">>)>>,
     <<Leaf("total_amount", <<"0">>)>>}
HdrId == {<<>>, <<Leaf("invoice_id", T_FV1)>>, <<MockLeaf("seller", <<>>)>>}
Headers == {i \o n \o v \o g : i \in HdrId, n \in HdrNet, v \in HdrVat, g \in HdrGross}
FewHeaders ==
    {<<>>, <<Leaf("net_amount", <<"1", "0", "0">>), Leaf("total_tax_amount", <<"2", "3">>)>>}

LineFull ==
    Ent("line_item", T_Item, NoMoney,
        <<Leaf("description", <<" ", "C", "o", "d", " ">>), Leaf("quantity", <<"2">>),
          Leaf("unit_price", <<"1", "0">>), Leaf("net_amount", <<"2", "0">>),
          Leaf("tax_amount", <<"4", ",", "6">>), Leaf("amount", <<"2", "4", ".", "6">>)>>)
LineBare == Ent("LineItem", T_Item, NoMoney, <<>>)
LineQty ==
    Ent("line_item", <<>>, NoMoney,
        <<Leaf("qty", <<"3">>), Leaf("unit_price_amount", <<"1", "0">>)>>)
LineMockQty == Ent("line_item", T_Item, NoAttr, <<MockLeaf("quantity", <<>>)>>)
\* A line whose quantity, net, tax and amount all read 0.
LineZero ==
    Ent("line_item", T_Item, NoMoney,
        <<Leaf("quantity", <<"0">>), Leaf("unit_price", <<"1", "0">>),
          Leaf("net_amount", <<"0">>), Leaf("tax_amount", <<"0">>),
          Leaf("amount", <<"0">>)>>)
LineEnts == {LineFull, LineBare, LineQty, LineMockQty, LineZero}

\* doc.text and the cells that point into it
DocText == <<"I", "t", "e", "m", "2", "1", "0", "1", ".", "5", "2", ".", "5">>
Cell(a, b) ==
    [layout |-> [text_anchor |-> Some([is_mapping |-> TRUE,
                  text_segments |-> <<[start_index |-> a, end_index |-> b]>>])]]
CellNoAnchor == [layout |-> [text_anchor |-> None]]
CellMessage ==
    [layout |-> [text_anchor |-> Some([is_mapping |-> FALSE, text_segments |-> <<>>])]]
Row(cells) == [cells |-> cells]

RowInts == Row(<<Cell(0, 4), Cell(4, 5), Cell(5, 7)>>)
RowDecimals == Row(<<Cell(0, 4), Cell(7, 10), Cell(10, 13)>>)
RowDescOnly == Row(<<Cell(0, 4)>>)
RowOneNumber == Row(<<CellNoAnchor, Cell(4, 5)>>)
RowMessage == Row(<<Cell(0, 4), CellMessage>>)
BodyRows == {RowInts, RowDecimals, RowDescOnly, RowOneNumber, RowMessage}
HeaderRows == {<<>>, <<RowDescOnly>>, <<Row(<<CellMessage>>)>>}

Table(header_rows, body_rows) == [header_rows |-> header_rows, body_rows |-> body_rows]
PageSets ==
    {<<>>} \cup {<<[tables |-> <<Table(h, b)>>]>> :
                    h \in HeaderRows, b \in SeqsUpTo(BodyRows, MaxRows)}

Doc(entities, pages) == [text |-> DocText, entities |-> entities, pages |-> pages]

\* The document of tests/test_docai_mock.py (make_doc), with k line items
\* and header totals k times one item's amounts.
MockLine ==
    Ent("line_item", <<>>, NoAttr,
        <<MockLeaf("line_item/description", <<"F", "i", "l", "e", "t", " ", "z", " ", "d", "o", "r", "s", "z", "a">>),
          MockLeaf("line_item/quantity", <<"2">>),
          MockLeaf("line_item/unit_price", <<"1", "0">>),
          MockLeaf("line_item/net_amount", <<"2", "0">>),
          MockLeaf("line_item/tax_rate", <<"2", "3">>),
          MockLeaf("line_item/tax_amount", <<"4", ".", "6">>),
          MockLeaf("line_item/amount", <<"2", "4", ".", "6">>)>>)
T_FV == <<"F", "V", "/", "1", "/", "2", "0", "2", "5">>
MockTotals ==
    <<[net |-> <<"2", "0">>, vat |-> <<"4", ".", "6">>, gross |-> <<"2", "4", ".", "6">>],
      [net |-> <<"4", "0">>, vat |-> <<"9", ".", "2">>, gross |-> <<"4", "9", ".", "2">>]>>
MockDoc(k) ==
    [entities |->
        <<MockLeaf("invoice_id", T_FV),
          MockLeaf("supplier_name", <<"D", "o", "s", "t", "a", "w", "c", "a", " ", "S", "p", ".", " ", "z", " ", "o", ".", "o", ".">>),
          MockLeaf("supplier_tax_id", <<"P", "L", "1", "2", "3", "4", "5", "6", "7", "8", "9", "0">>),
          MockLeaf("invoice_date", <<"2", "0", "2", "5", "-", "0", "9", "-", "1", "0">>),
          MockLeaf("total_net_amount", MockTotals[k].net),
          MockLeaf("total_tax_amount", MockTotals[k].vat),
          MockLeaf("total_gross_amount", MockTotals[k].gross)>>
        \o [n \in 1..k |-> MockLine],
     text |-> <<>>, pages |-> <<>>]
MockDocs == {MockDoc(k) : k \in 1..Len(MockTotals)}

Docs ==
    {Doc(h \o l, <<>>) : h \in Headers, l \in SeqsUpTo(LineEnts, MaxLineEnts)}
    \cup {Doc(h \o l, p) : h \in FewHeaders, l \in SeqsUpTo(LineEnts, MaxLineEnts),
                           p \in PageSets}
    \cup MockDocs

InitDocAI ==
    /\ doc \in Docs
    /\ dres = NotRun
    /\ ValIdle /\ RateIdle /\ MoneyIdle /\ SheetIdle /\ RunIdle /\ ExportIdle

\* The totals check run_once makes of an invoice (475-483), for every
\* rounding direction fp of the three differences.
CheckedOutcomes(inv, items) ==
    IF inv = None
    THEN {[items |-> items, invoice |-> None, check |-> None]}
    ELSE {[items |-> items, invoice |-> inv,
           check |-> Some(ValidateTotals(TotalsData(inv[1]), DefaultTol, fp))] :
             fp \in DimErrs}

\* The outcomes of parse_invoice_docai and of that check, for one rounding
\* direction err of the rate quotients.
ParseOutcomes(d, err) ==
    CheckedOutcomes(ParseInvoiceFields(d, T_f1, err), DocaiParseLineItems(d, err))

ParseDoc ==
    /\ dres = NotRun
    /\ \E err \in FloatErr : \E out \in ParseOutcomes(doc, err) : dres' = Some(out)
    /\ UNCHANGED <<doc, valVars, rateVars, moneyVars, sheetVars, runVars, exportVars>>

NextDocAI == ParseDoc

SpecDocAI == InitDocAI /\ [][NextDocAI]_vars

---------------------------------------------------------------------------
(* C4, C5, C6, C8: the assembled invoice                                   *)

Parsed == dres /= NotRun
Outcome == dres[1]
Assembled == Parsed /\ Outcome.invoice /= None
AssembledInvoice == Outcome.invoice[1]
ExtractedItems == Outcome.items.val

\* C4: when the line-item extractor yields zero items, the assembled
\* invoice has exactly one line item, of quantity 1, whose net, vat and
\* gross are (to the cent) the invoice's total_net, total_vat and
\* total_gross, and the invoice passes the totals check, whatever header
\* totals are present.
C4_PlaceholderPasses ==
    (Assembled /\ ~Outcome.items.raised /\ ExtractedItems = <<>>) =>
        LET inv == AssembledInvoice
            it == inv.line_items[1]
        IN  /\ Len(inv.line_items) = 1
            /\ it.quantity = Some(1000)
            /\ it.net /= None /\ Round2(it.net[1]) = inv.total_net
            /\ it.vat /= None /\ Round2(it.vat[1]) = inv.total_vat
            /\ it.gross /= None /\ Round2(it.gross[1]) = inv.total_gross
            /\ Outcome.check[1].ok

ItemField(items, k) == [n \in 1..Len(items) |-> IF items[n][k] = None THEN 0 ELSE items[n][k][1]]

\* What C5 says a total is: the header total when one resolves, else the
\* aggregate of the extracted items.
HeaderOrAggregate(header, aggregate) ==
    IF header /= None THEN Round2(header[1]) ELSE Round2(aggregate)

\* C5: each of total_net, total_vat, total_gross is the explicit header
\* total when that entity resolves, and else the aggregate of the extracted
\* line items: sum of gross minus sum of vat, sum of vat, sum of gross.
C5_TotalsFromHeaderOrItems ==
    (Assembled /\ ~Outcome.items.raised) =>
        LET inv == AssembledInvoice
            sumVat == SumSeq(ItemField(ExtractedItems, "vat"))
            sumGross == SumSeq(ItemField(ExtractedItems, "gross"))
        IN  /\ inv.total_net =
                 HeaderOrAggregate(DocaiFindFirstMoney(doc, <<"net_amount", "subtotal_amount">>),
                                   sumGross - sumVat)
            /\ inv.total_vat =
                 HeaderOrAggregate(DocaiFindFirstMoney(doc, <<"total_tax_amount", "tax_amount">>),
                                   sumVat)
            /\ inv.total_gross =
                 HeaderOrAggregate(DocaiFindFirstMoney(doc, <<"total_amount">>), sumGross)

\* The entities of a document with a given tag, in document order.
Tagged(ents, tag) == SelectSeq(ents, LAMBDA e : e.type_ = tag)

\* A document of the shape of the test's: an invoice_id entity, the three
\* header totals total_net_amount, total_tax_amount, total_gross_amount,
\* and line_item entities whose children carry the parent prefix.
PrefixedShape(d) ==
    /\ \A tag \in {"invoice_id", "total_net_amount", "total_tax_amount",
                   "total_gross_amount", "line_item"} : Tagged(d.entities, tag) /= <<>>
    /\ \A n \in 1..Len(d.entities) :
          d.entities[n].type_ = "line_item" =>
             \A tag \in {"line_item/description", "line_item/quantity",
                         "line_item/unit_price", "line_item/net_amount",
                         "line_item/tax_amount", "line_item/amount"} :
                Tagged(d.entities[n].properties, tag) /= <<>>

\* C6: for such a document whose line amounts sum to the header totals,
\* field extraction gives a record that passes validate_totals at the
\* default tolerance, whose invoice id is the text of the invoice_id entity
\* and whose first line item's description is the text of that item's
\* description child.
C6_PrefixedDocExtracts ==
    (Parsed /\ PrefixedShape(doc)) =>
        /\ Assembled
        /\ Outcome.check[1].ok
        /\ AssembledInvoice.number = Tagged(doc.entities, "invoice_id")[1].mention_text
        /\ AssembledInvoice.line_items[1].description =
             Tagged(Tagged(doc.entities, "line_item")[1].properties,
                    "line_item/description")[1].mention_text

LineItemEnts(d) == SelectSeq(d.entities, IsLineItemEnt)

\* A body row a reader takes as valid and numeric: a description cell and
\* at least one more cell, every layout readable, every cell after the
\* first a number.
ValidNumericRow(d, row) ==
    /\ Len(row.cells) >= 2
    /\ ~RowRaises(row)
    /\ \A n \in 2..Len(row.cells) : SafeMoney(LayoutText(d, row.cells[n].layout)) /= None

OneValidTable(d) ==
    /\ Len(d.pages) = 1 /\ Len(d.pages[1].tables) = 1
    /\ LET t == d.pages[1].tables[1]
       IN  /\ \A n \in 1..Len(t.header_rows) : ~RowRaises(t.header_rows[n])
           /\ t.body_rows /= <<>>
           /\ \A n \in 1..Len(t.body_rows) : ValidNumericRow(d, t.body_rows[n])

\* C8: with at least one top-level line-item entity the result is exactly
\* the items built from those entities, in document order, and no table is
\* consulted; a document with no line-item entity and one table of valid
\* numeric body rows gives a non-empty list.
C8_StrategyOrder ==
    (Parsed /\ ~Outcome.items.raised) =>
        /\ LineItemEnts(doc) /= <<>> =>
              /\ Len(ExtractedItems) = Len(LineItemEnts(doc))
              /\ \A n \in 1..Len(ExtractedItems) : \E err \in FloatErr :
                    ExtractedItems[n] = ItemFromEntity(LineItemEnts(doc)[n], err).val
        /\ (LineItemEnts(doc) = <<>> /\ OneValidTable(doc)) => ExtractedItems /= <<>>

---------------------------------------------------------------------------
(* The remote sheet checker (validate_google_sheet.py, 23-74)              *)
(* A sheet range is a list of rows, a row a list of cell texts; the        *)
(* service drops trailing empty cells, so rows differ in length.  Columns  *)
(* are counted from 0 as in the source.                                    *)

\* float(str(x).replace(" ", "").replace(",", ".")), None when it raises
AsFloat(x) == PyFloat(CommaToDot(DropBlanks(x)))

CellAt(row, idx) == row[idx + 1]

\* REQUIRED_DANE_COLS, in the order the mapping is written
RequiredDaneCols ==
    <<[name |-> "invoice_id", idx |-> 0], [name |-> "supplier_name", idx |-> 1],
      [name |-> "supplier_tax_id", idx |-> 2], [name |-> "issue_date", idx |-> 3],
      [name |-> "currency", idx |-> 5], [name |-> "total_net", idx |-> 6],
      [name |-> "total_vat", idx |-> 7], [name |-> "total_gross", idx |-> 8]>>

\* idx >= len(row) or row[idx] in ("", None)
CellMissing(row, idx) == idx >= Len(row) \/ CellAt(row, idx) = <<>>

\* The missing-cell messages of one header row, r its sheet row number.
RowMissing(row, r) ==
    LET hit == SelectSeq(RequiredDaneCols, LAMBDA c : CellMissing(row, c.idx))
    IN  [n \in 1..Len(hit) |-> [row |-> r, col |-> hit[n].name]]

RECURSIVE MissingFrom(_, _)
MissingFrom(rows, r) ==
    IF rows = <<>> THEN <<>>
    ELSE RowMissing(Head(rows), r) \o MissingFrom(Tail(rows), r + 1)

\* for r, row in enumerate(dane, start=2)
FirstSheetRow == 2
Missing(rows) == MissingFrom(rows, FirstSheetRow)

\* The columns of a line-item row the checker reads (43-46).
PozNetCol == 6
PozVatCol == 8
PozGrossCol == 9
PozNet(row) == IF Len(row) > PozNetCol THEN AsFloat(CellAt(row, PozNetCol)) ELSE Some(0)
PozVat(row) == IF Len(row) > PozVatCol THEN AsFloat(CellAt(row, PozVatCol)) ELSE None
PozGross(row) == IF Len(row) > PozGrossCol THEN AsFloat(CellAt(row, PozGrossCol)) ELSE None

\* A row adds to sumy[inv], and so creates the entry, only with a value
\* that is not None (47-49).
Adds(row) ==
    row /= <<>> /\ (PozNet(row) /= None \/ PozVat(row) /= None \/ PozGross(row) /= None)

\* The keys of sumy after the loop over poz (41-49).
SumyKeys(rows) == {CellAt(rows[n], 0) : n \in {m \in 1..Len(rows) : Adds(rows[m])}}

Amount(v) == IF v = None THEN 0 ELSE v[1]

\* sumy after the loop: for each key the sums of the values that are not
\* None over the rows of that key.
RowsOf(rows, inv) == SelectSeq(rows, LAMBDA row : row /= <<>> /\ CellAt(row, 0) = inv)

SumsOf(mine) ==
    [net |-> SumSeq([n \in 1..Len(mine) |-> Amount(PozNet(mine[n]))]),
     vat |-> SumSeq([n \in 1..Len(mine) |-> Amount(PozVat(mine[n]))]),
     gross |-> SumSeq([n \in 1..Len(mine) |-> Amount(PozGross(mine[n]))])]

Sumy(rows) == [inv \in SumyKeys(rows) |-> SumsOf(RowsOf(rows, inv))]

\* tol = 0.02
SheetTol == 20

\* The columns of a header row the totals are read from (56).
DaneTotalCol == [net |-> 6, vat |-> 7, gross |-> 8]
DaneMinLen == 9

\* One dimension of one header row (59-64): a message or none.
DimMismatch(row, s, dim, fp) ==
    LET declared == AsFloat(CellAt(row, DaneTotalCol[dim]))
    IN  IF declared /= None /\ FloatGt(Abs(s[dim] - declared[1]), SheetTol, fp[dim])
        THEN <<[inv |-> CellAt(row, 0), dim |-> dim, sum |-> s[dim], total |-> declared[1]]>>
        ELSE <<>>

\* The mismatch messages of one header row (54-64).
RowMismatch(row, sumy, fp) ==
    IF row = <<>> \/ Len(row) < DaneMinLen THEN <<>>
    ELSE IF CellAt(row, 0) \notin DOMAIN sumy THEN <<>>
    ELSE DimMismatch(row, sumy[CellAt(row, 0)], "net", fp)
         \o DimMismatch(row, sumy[CellAt(row, 0)], "vat", fp)
         \o DimMismatch(row, sumy[CellAt(row, 0)], "gross", fp)

RECURSIVE Mismatch(_, _, _)
Mismatch(dane_rows, sumy, fp) ==
    IF dane_rows = <<>> THEN <<>>
    ELSE RowMismatch(Head(dane_rows), sumy, fp) \o Mismatch(Tail(dane_rows), sumy, fp)

\* The end of main (66-74): the two lists and the exit status.
Verdict(missing, mismatch) ==
    [missing |-> missing, mismatch |-> mismatch,
     exit |-> IF missing /= <<>> \/ mismatch /= <<>> THEN 1 ELSE 0]

---------------------------------------------------------------------------
(* Sheets handed to the checker                                            *)

MaxDane == 1
MaxPoz == 2

T_A == <<"I", "N", "V", "-", "1">>
T_B == <<"I", "N", "V", "-", "2">>
T_na == <<"n", "/", "a">>
T_x == <<"x">>

\* A header row of the Dane range: the eight required cells and column 4.
DaneRow(inv, currency, net, vat, gross) ==
    <<inv, T_x, T_x, <<"2", "0", "2", "5", "-", "0", "9", "-", "1", "0">>, <<>>, currency, net, vat, gross>>

DaneRows ==
    {DaneRow(T_A, T_PLN, n, <<"1", "1", ".", "5">>, <<"6", "1", ".", "5">>) :
        n \in {<<"5", "0">>, <<"5", "0", ",", "0", "0">>, <<>>, T_na}}
    \cup {DaneRow(T_A, <<>>, <<"2", "5">>, <<"5", ".", "7", "5">>, <<"3", "0", ".", "7", "5">>),
          DaneRow(T_A, T_PLN, <<"2", "5">>, <<"5", ".", "7", "5">>, <<"3", "0", ".", "7", "5">>),
          DaneRow(T_B, T_PLN, <<"2", "5">>, <<"5", ".", "7", "5">>, <<"3", "0", ".", "7", "5">>),
          <<T_A, T_x, T_x, T_x, <<>>, T_PLN, <<"5", "0">>, <<"1", "1", ".", "5">>>>,
          <<>>}

\* A line-item row of the Pozycje range as the checker reads it.
PozRow(inv, net, vat, gross) ==
    <<inv, T_x, <<"1">>, T_x, T_x, T_x, net, T_x, vat, gross>>

PozRows ==
    {PozRow(T_A, n, v, g) :
        n \in {<<"2", "5">>, <<"2", "4">>, <<"2", "4", ",", "9", "8", "5">>, <<"2", "4", ".", "9", "8">>, T_na},
        v \in {<<"5", ".", "7", "5">>, T_na}, g \in {<<"3", "0", ".", "7", "5">>}}
    \cup {PozRow(T_A, T_na, T_na, T_na)}
    \cup {PozRow(T_B, <<"2", "5">>, <<"5", ".", "7", "5">>, <<"3", "0", ".", "7", "5">>),
          <<T_A>>, <<T_A, T_x, T_x, T_x, T_x, T_x, T_na>>, <<>>}

InitSheet ==
    /\ dane \in SeqsUpTo(DaneRows, MaxDane)
    /\ poz \in SeqsUpTo(PozRows, MaxPoz)
    /\ sres = NotRun
    /\ ValIdle /\ RateIdle /\ MoneyIdle /\ DocIdle /\ RunIdle /\ ExportIdle

\* One run of main on the two fetched ranges (29-74): the missing list,
\* then sumy, then the comparisons; fp is the rounding direction of the
\* differences.
CheckSheet ==
    /\ sres = NotRun
    /\ \E missing \in {Missing(dane)}, sumy \in {Sumy(poz)} :
          \E fp \in DimErrs : sres' = Some(Verdict(missing, Mismatch(dane, sumy, fp)))
    /\ UNCHANGED <<dane, poz, valVars, rateVars, moneyVars, docVars, runVars, exportVars>>

NextSheet == CheckSheet

SpecSheet == InitSheet /\ [][NextSheet]_vars

---------------------------------------------------------------------------
(* C2, C3: the verdict of the remote checker                               *)

Checked == sres /= NotRun
SheetVerdict == sres[1]

HeaderIncomplete ==
    \E n \in 1..Len(dane), c \in 1..Len(RequiredDaneCols) :
        CellMissing(dane[n], RequiredDaneCols[c].idx)

\* The line-item rows of a header row's invoice number, and their sums.
LineRows(row) == RowsOf(poz, CellAt(row, 0))
LineSum(row, dim) == SumsOf(LineRows(row))[dim]

Declared(row, dim) ==
    IF Len(row) > DaneTotalCol[dim] THEN AsFloat(CellAt(row, DaneTotalCol[dim])) ELSE None

\* The sum of a dimension is off by more than tol (at least tol) from the
\* declared total of a header row that has line-item rows.
OffBeyond(row, dim, tol) ==
    /\ row /= <<>> /\ LineRows(row) /= <<>> /\ Declared(row, dim) /= None
    /\ Abs(LineSum(row, dim) - Declared(row, dim)[1]) > tol
OffAtLeast(row, dim, tol) ==
    /\ row /= <<>> /\ LineRows(row) /= <<>> /\ Declared(row, dim) /= None
    /\ Abs(LineSum(row, dim) - Declared(row, dim)[1]) >= tol

MessagesOf(inv) == SelectSeq(SheetVerdict.mismatch, LAMBDA m : m.inv = inv)

\* C2: the run fails exactly when a required header cell is empty or a
\* header row whose invoice number has line-item rows has a net, vat or
\* gross sum out of tolerance against its declared total (a difference of
\* exactly the tolerance is left to the float rounding); a header row
\* without line-item rows gets no mismatch message; with complete header
\* cells, one header row and only the net sum off, there is exactly one
\* mismatch message, naming that invoice.
C2_FailureIffMissingOrMismatch ==
    Checked =>
        /\ (HeaderIncomplete
            \/ \E n \in 1..Len(dane), dim \in Dims : OffBeyond(dane[n], dim, SheetTol))
              => SheetVerdict.exit = 1
        /\ SheetVerdict.exit = 1 =>
              (HeaderIncomplete
               \/ \E n \in 1..Len(dane), dim \in Dims : OffAtLeast(dane[n], dim, SheetTol))
        /\ \A n \in 1..Len(dane) :
              (dane[n] /= <<>> /\ LineRows(dane[n]) = <<>>)
                 => MessagesOf(CellAt(dane[n], 0)) = <<>>
        /\ (Len(dane) = 1 /\ ~HeaderIncomplete
            /\ OffBeyond(dane[1], "net", SheetTol)
            /\ ~OffAtLeast(dane[1], "vat", SheetTol)
            /\ ~OffAtLeast(dane[1], "gross", SheetTol))
              => /\ Len(SheetVerdict.mismatch) = 1
                 /\ SheetVerdict.mismatch[1].inv = CellAt(dane[1], 0)

\* The header row's totals and its line-item rows' amounts as the mapping
\* validate_totals takes.
AsTotalsData(row) ==
    [total_net |-> Declared(row, "net"), total_vat |-> Declared(row, "vat"),
     total_gross |-> Declared(row, "gross"),
     line_items |-> [n \in 1..Len(LineRows(row)) |->
                        [net |-> PozNet(LineRows(row)[n]),
                         vat |-> PozVat(LineRows(row)[n]),
                         gross |-> PozGross(LineRows(row)[n])]]]

\* A header row with numeric totals and line-item rows with numeric
\* amounts.
Numeric(row) ==
    /\ Len(row) >= DaneMinLen /\ LineRows(row) /= <<>>
    /\ \A dim \in Dims : Declared(row, dim) /= None
    /\ \A n \in 1..Len(LineRows(row)) :
          /\ PozNet(LineRows(row)[n]) /= None
          /\ PozVat(LineRows(row)[n]) /= None
          /\ PozGross(LineRows(row)[n]) /= None

RemoteReports(row, dim) ==
    \E n \in 1..Len(SheetVerdict.mismatch) :
        SheetVerdict.mismatch[n].inv = CellAt(row, 0) /\ SheetVerdict.mismatch[n].dim = dim

LocalReports(row, dim, fp) == Reported(ValidateTotals(AsTotalsData(row), DefaultTol, fp).errors, dim)

\* C3: for a header row with line-item rows, the remote checker reports a
\* mismatch on a dimension exactly when validate_totals at its default
\* tolerance does on the same totals and amounts (for some rounding of the
\* differences).
C3_SameComparison ==
    (Checked /\ Len(dane) = 1 /\ Numeric(dane[1])) =>
        \A dim \in Dims :
            /\ RemoteReports(dane[1], dim) => \E fp \in DimErrs : LocalReports(dane[1], dim, fp)
            /\ ~RemoteReports(dane[1], dim) => \E fp \in DimErrs : ~LocalReports(dane[1], dim, fp)

---------------------------------------------------------------------------
(* One run over the inbox (process_invoices.py, 227-249 and 450-499)       *)
(* A file is [stem, service, crash]: service is what the extraction        *)
(* service gives for it (None when the import, the client or the request   *)
(* fails, else the document), crash says that something raises inside      *)
(* process_one_file outside parse_invoice_docai.                           *)

T_Pdf == <<".", "p", "d", "f">>
\* datetime.now().strftime('%Y%m%d%H%M%S')
T_Stamp == <<"2", "0", "2", "6", "0", "1", "0", "1", "0", "0", "0", "0", "0", "0">>

\* parse_invoice_stub (227-249); name is file_path.name.
StubItem(k, name, quantity, unit_price) ==
    LineItem(<<"P", "o", "z", "y", "c", "j", "a", " ">> \o <<k>> \o <<" ", "z", " ">> \o name,
             Some(quantity), Some(unit_price), Some(100000), Some(2300),
             Some(23000), Some(123000))

StubItems(name) == <<StubItem("1", name, 1000, 100000), StubItem("2", name, 2000, 50000)>>

ParseInvoiceStub(file) ==
    Invoice(T_INV \o file.stem \o <<"-">> \o T_Stamp, T_Today,
            <<"A", "c", "m", "e", " ", "S", "p", ".", " ", "z", " ", "o", ".", "o", ".">>, <<"T", "w", "o", "j", "a", " ", "F", "i", "r", "m", "a", " ", "S", "p", ".", " ", "z", " ", "o", ".", "o", ".">>, T_PLN,
            [net |-> SumSeq(ItemField(StubItems(file.stem \o T_Pdf), "net")),
             vat |-> SumSeq(ItemField(StubItems(file.stem \o T_Pdf), "vat")),
             gross |-> SumSeq(ItemField(StubItems(file.stem \o T_Pdf), "gross"))],
            StubItems(file.stem \o T_Pdf))

\* parse_invoice_docai (158-225): None when the service fails or the
\* parsing raises.
ParseInvoiceDocai(file, err) ==
    IF file.service = None THEN None
    ELSE ParseInvoiceFields(file.service[1], file.stem, err)

\* The try body of process_one_file (455-462).
TryOneFile(file, with_docai, err) ==
    IF file.crash THEN Raised
    ELSE IF with_docai /\ ParseInvoiceDocai(file, err) /= None
    THEN Ok(ParseInvoiceDocai(file, err))
    ELSE Ok(Some(ParseInvoiceStub(file)))

\* Mutant: the exception is not caught.
NotCaught(outcome) == outcome

\* except Exception: ... return None (463-465)
Caught(outcome) == IF outcome.raised THEN Ok(None) ELSE outcome

ProcessOneFile(file, with_docai, err) == Caught(TryOneFile(file, with_docai, err))

\* Mutant: an invoice that fails the totals check is left out.
CollectedIfValid(list, inv, check) == IF check.ok THEN Append(list, inv) ELSE list

\* invoices.append(inv) (485): whatever the check said.
Collected(list, inv, check) == Append(list, inv)

---------------------------------------------------------------------------
(* The files of a run                                                      *)

MaxFiles == 3

DocGrossOnly == Doc(<<Leaf("total_amount", <<"1", "2", "3">>)>>, <<>>)
DocRaises == Doc(<<MockLeaf("seller", <<>>)>>, <<>>)
DocGood == Doc(<<Leaf("invoice_id", T_FV1), Leaf("net_amount", <<"2", "0">>),
                 Leaf("total_tax_amount", <<"4", ".", "6">>), Leaf("total_amount", <<"2", "4", ".", "6">>),
                 LineFull>>, <<>>)

File(service, crash) == [stem |-> T_f1, service |-> service, crash |-> crash]
Files ==
    {File(None, FALSE), File(Some(DocGrossOnly), FALSE), File(Some(DocRaises), FALSE),
     File(Some(DocGood), FALSE), File(Some(DocGood), TRUE)}

Init ==
    /\ files \in SeqsUpTo(Files, MaxFiles)
    /\ have_docai \in BOOLEAN
    /\ dry_run \in BOOLEAN
    /\ pc = "start" /\ fpos = 0
    /\ yields = <<>> /\ invoices = <<>> /\ warned = <<>>
    /\ output = NotRun
    /\ ValIdle /\ RateIdle /\ MoneyIdle /\ DocIdle /\ SheetIdle /\ ExportIdle

\* files = find_new_files(INBOX_DIR); if not files: return (468-471)
Start ==
    /\ pc = "start"
    /\ IF files = <<>> THEN pc' = "done" /\ fpos' = fpos
       ELSE pc' = "loop" /\ fpos' = 1
    /\ UNCHANGED <<files, have_docai, dry_run, yields, invoices, warned, output>>
    /\ UNCHANGED <<valVars, rateVars, moneyVars, docVars, sheetVars, exportVars>>

\* One turn of the loop (474-485): process_one_file, then for an invoice
\* the totals check, a warning when it fails, and the append.  An
\* exception leaving process_one_file would end the run.  The rounding
\* directions of the rate quotients and of the differences are inputs.
ProcessFile ==
    /\ pc = "loop" /\ fpos <= Len(files)
    /\ \E got \in {ProcessOneFile(files[fpos], have_docai, err) : err \in FloatErr} :
          IF got.raised
          THEN /\ pc' = "crashed"
               /\ UNCHANGED <<fpos, yields, invoices, warned>>
          ELSE /\ pc' = pc /\ fpos' = fpos + 1
               /\ yields' = Append(yields, got.val)
               /\ IF got.val = None
                  THEN UNCHANGED <<invoices, warned>>
                  ELSE \E check \in {ValidateTotals(TotalsData(got.val[1]), DefaultTol, fp) :
                                       fp \in DimErrs} :
                          /\ invoices' = Collected(invoices, got.val[1], check)
                          /\ warned' = IF check.ok THEN warned ELSE Append(warned, fpos)
    /\ UNCHANGED <<files, have_docai, dry_run, output>>
    /\ UNCHANGED <<valVars, rateVars, moneyVars, docVars, sheetVars, exportVars>>

\* After the loop (487-499): nothing to write, the preview, or the export.
Finish ==
    /\ pc = "loop" /\ fpos > Len(files)
    /\ pc' = "done"
    /\ output' = IF invoices = <<>> THEN NotRun
                 ELSE IF dry_run THEN Some([to |-> "preview", invoices |-> invoices])
                 ELSE Some([to |-> "write_to_excel", invoices |-> invoices])
    /\ UNCHANGED <<files, have_docai, dry_run, fpos, yields, invoices, warned>>
    /\ UNCHANGED <<valVars, rateVars, moneyVars, docVars, sheetVars, exportVars>>

Next == Start \/ ProcessFile \/ Finish

Spec == Init /\ [][Next]_vars

---------------------------------------------------------------------------
(* C10                                                                     *)

\* The invoices among what the files yielded, in file order.
RECURSIVE Yielded(_)
Yielded(ys) ==
    IF ys = <<>> THEN <<>>
    ELSE IF Head(ys) = None THEN Yielded(Tail(ys))
    ELSE <<Head(ys)[1]>> \o Yielded(Tail(ys))

\* C10: no failure in one file ends the run or keeps the later files from
\* being processed; a file whose extraction service fails yields the stub
\* invoice; and at the end every invoice a file yielded, passed by the
\* totals check or not, is in the list handed to the export or the preview.
C10_BatchIsolation ==
    /\ pc /= "crashed"
    /\ \A n \in 1..Len(yields) :
          (have_docai /\ ~files[n].crash /\ files[n].service = None)
             => yields[n] = Some(ParseInvoiceStub(files[n]))
    /\ pc = "done" =>
          /\ Len(yields) = Len(files)
          /\ Yielded(yields) /= <<>> =>
                /\ output /= NotRun
                /\ output[1].invoices = Yielded(yields)
                /\ output[1].to = IF dry_run THEN "preview" ELSE "write_to_excel"

\* A finished run in which a file crashed, the service failed for a file
\* that was not the last, and an invoice that failed the totals check was
\* handed on.
C10_Witness ==
    /\ pc = "done" /\ have_docai /\ output /= NotRun
    /\ \E n \in 1..Len(files) : files[n].crash
    /\ \E n \in 1..(Len(files) - 1) : ~files[n].crash /\ files[n].service = None
    /\ warned /= <<>>
    /\ Len(output[1].invoices) = Len(files) - 1

---------------------------------------------------------------------------
(* C11: the amounts of an item built from a line_item entity               *)

\* What C11 says a field is: the resolved value when one resolves, 0
\* included, and the default only when none does.
ResolvedOr(found, default) == IF found /= None THEN found[1] ELSE default

\* The item's amounts as C11 states them, from the lookups of one entity.
StatedAmounts(q, unit, net_found, tax, amount) ==
    LET qty == ResolvedOr(q, 1000)
        unit_price == ResolvedOr(unit, 0)
        net == ResolvedOr(net_found, Times(qty, unit_price))
        vat == ResolvedOr(tax, 0)
    IN  [quantity |-> Some(qty), unit_price |-> Some(unit_price),
         net |-> Some(net), vat |-> Some(vat),
         gross |-> Some(ResolvedOr(amount, net + vat))]

StatedOfEntity(ent) ==
    StatedAmounts(EntityChildFloat(ent, <<"quantity", "qty">>).val,
                  EntityChildMoney(ent, <<"unit_price", "unit_price_amount">>),
                  EntityChildMoney(ent, <<"net_amount", "subtotal_amount">>),
                  EntityChildMoney(ent, <<"tax_amount">>),
                  EntityChildMoney(ent, <<"amount", "total_amount">>))

AmountsOf(item) ==
    [quantity |-> item.quantity, unit_price |-> item.unit_price,
     net |-> item.net, vat |-> item.vat, gross |-> item.gross]

\* C11: for each line-item entity, each of quantity, unit price, net, vat
\* and gross of the resulting item is the value resolved from the matching
\* child property whenever one resolves (a resolved 0 included), and the
\* default only when the field is missing: quantity 1, unit price 0, net
\* quantity * unit_price, vat 0, gross net + vat.
C11_ResolvedOrDefault ==
    (Parsed /\ ~Outcome.items.raised /\ LineItemEnts(doc) /= <<>>) =>
        \A n \in 1..Len(LineItemEnts(doc)) :
            AmountsOf(ExtractedItems[n]) = StatedOfEntity(LineItemEnts(doc)[n])

---------------------------------------------------------------------------
(* C12, C13: the table strategy, row by row                                *)

\* The number a reader takes from one cell: the cell's own text, normalized.
CellNumber(d, cell) == SafeMoney(LayoutText(d, cell.layout))

\* A body row with at least one parseable numeric cell after the first.
HasNumber(d, row) ==
    /\ ~RowRaises(row)
    /\ \E n \in 2..Len(row.cells) : CellNumber(d, row.cells[n]) /= None

\* A body row with a cell that fails to parse: a layout that cannot be
\* read, or a cell after the first that is no number.
FailsToParse(d, row) ==
    \/ RowRaises(row)
    \/ \E n \in 2..Len(row.cells) : CellNumber(d, row.cells[n]) = None

\* The rows of a table that come after a failing row and have a number.
LaterNumberRows(d, rows) ==
    {k \in 1..Len(rows) : /\ HasNumber(d, rows[k])
                          /\ \E j \in 1..(k - 1) : FailsToParse(d, rows[j])}

\* The table strategy runs on a table whose header rows can be read.
TableStrategy(d) ==
    /\ LineItemEnts(d) = <<>>
    /\ Len(d.pages) = 1 /\ Len(d.pages[1].tables) = 1
    /\ \A n \in 1..Len(d.pages[1].tables[1].header_rows) :
          ~RowRaises(d.pages[1].tables[1].header_rows[n])

\* C12: in the table strategy a row whose cells fail to parse never makes
\* later rows be dropped: the extractor does not raise, and every later row
\* with at least one parseable numeric cell still gives a line item.
C12_RowsIndependent ==
    (Parsed /\ TableStrategy(doc)) =>
        /\ ~Outcome.items.raised
        /\ Len(ExtractedItems) >=
              Cardinality(LaterNumberRows(doc, doc.pages[1].tables[1].body_rows))

\* The numbers of the cells after the first, each cell on its own.
CellNumbers(d, row) ==
    [n \in 1..(Len(row.cells) - 1) |-> CellNumber(d, row.cells[n + 1])]

\* The cells that parse, in order.
Present(nums) == SelectSeq(nums, LAMBDA v : v /= None)

\* The item C13 states for a row: the description is the first cell's own
\* text, the parsed cells go in order to quantity, unit price, net, vat and
\* gross, with the defaults of the entity strategy for those not present.
StatedRowItem(desc, parsed) ==
    [description |-> OrText(Strip(desc), T_LineItem),
     amounts |-> StatedAmounts(Nth(parsed, 1), Nth(parsed, 2), Nth(parsed, 3),
                               Nth(parsed, 4), Nth(parsed, 5))]

RowStated(d, row) ==
    IF row.cells = <<>> THEN <<>>
    ELSE IF Present(CellNumbers(d, row)) = <<>> THEN <<>>
    ELSE <<StatedRowItem(LayoutText(d, row.cells[1].layout),
                         Present(CellNumbers(d, row)))>>

RECURSIVE StatedRows(_, _)
StatedRows(d, rows) ==
    IF rows = <<>> THEN <<>>
    ELSE RowStated(d, Head(rows)) \o StatedRows(d, Tail(rows))

Observed(items) ==
    [n \in 1..Len(items) |->
        [description |-> items[n].description, amounts |-> AmountsOf(items[n])]]

AllReadable(rows) == \A n \in 1..Len(rows) : ~RowRaises(rows[n])

\* C13: in the table strategy, for every body row the description is the
\* text of the first cell alone and each later cell is normalized on its
\* own; a row in which no later cell parses is skipped, and otherwise the
\* cells that parse are assigned in order to quantity, unit price, net, vat
\* and gross, with the entity strategy's defaults for those not present.
C13_RowCellsInOrder ==
    (Parsed /\ TableStrategy(doc) /\ AllReadable(doc.pages[1].tables[1].body_rows)) =>
        /\ ~Outcome.items.raised
        /\ Observed(ExtractedItems) = StatedRows(doc, doc.pages[1].tables[1].body_rows)

---------------------------------------------------------------------------
(* write_to_excel (process_invoices.py, 416-446) and the checker's read of *)
(* what it wrote                                                           *)
(* A workbook cell holds a text or a number; a number is kept with its     *)
(* scale (1000 for amounts and quantities, 100 for rates).                 *)

TextCell(t) == [kind |-> "text", text |-> t, number |-> 0, scale |-> 1]
NumberCell(v, scale) == [kind |-> "number", text |-> <<>>, number |-> v[1], scale |-> scale]

\* The first row of each sheet: the column names (424 and 431).
DaneHeaders ==
    <<"number", "issue_date", "seller", "buyer", "currency", "total_net",
      "total_vat", "total_gross">>
PozycjeHeaders ==
    <<"invoice_number", "description", "quantity", "unit_price", "net",
      "vat_rate", "vat", "gross">>

\* ws1.append([inv.number, ..., inv.total_gross]) (427-428)
DaneCells(inv) ==
    <<TextCell(inv.number), TextCell(inv.issue_date), TextCell(inv.seller),
      TextCell(inv.buyer), TextCell(inv.currency),
      NumberCell(Some(inv.total_net), 1000),
      NumberCell(Some(inv.total_vat), 1000),
      NumberCell(Some(inv.total_gross), 1000)>>

\* ws2.append([inv.number, li.description, ..., li.gross]) (435)
PozycjeCells(inv, li) ==
    <<TextCell(inv.number), TextCell(li.description),
      NumberCell(li.quantity, 1000), NumberCell(li.unit_price, 1000),
      NumberCell(li.net, 1000), NumberCell(li.vat_rate, 100),
      NumberCell(li.vat, 1000), NumberCell(li.gross, 1000)>>

RECURSIVE PozycjeOf(_)
PozycjeOf(list) ==
    IF list = <<>> THEN <<>>
    ELSE [n \in 1..Len(Head(list).line_items) |->
             PozycjeCells(Head(list), Head(list).line_items[n])]
         \o PozycjeOf(Tail(list))

\* The two data sheets of the saved workbook (421-435).
Workbook(list) ==
    [Dane |-> <<[n \in 1..Len(DaneHeaders) |-> TextCell(<<DaneHeaders[n]>>)]>>
              \o [n \in 1..Len(list) |-> DaneCells(list[n])],
     Pozycje |-> <<[n \in 1..Len(PozycjeHeaders) |-> TextCell(<<PozycjeHeaders[n]>>)]>>
                 \o PozycjeOf(list)]

\* str(x) of a float (validate_google_sheet.py, 25): the integer part, a
\* point, the fraction without trailing zeros and at least one digit.
RECURSIVE NatText(_)
NatText(n) ==
    IF n < 10 THEN <<DigitChars[n + 1]>>
    ELSE NatText(n \div 10) \o <<DigitChars[(n % 10) + 1]>>

RECURSIVE FracDigits(_, _)
FracDigits(f, scale) ==
    IF scale = 1 THEN <<>>
    ELSE <<DigitChars[((f * 10) \div scale) + 1]>>
         \o FracDigits(f % (scale \div 10), scale \div 10)

RECURSIVE DropZeros(_)
DropZeros(t) ==
    IF t = <<>> THEN <<>>
    ELSE IF t[Len(t)] = "0" THEN DropZeros(SubSeq(t, 1, Len(t) - 1))
    ELSE t

FracText(f, scale) ==
    IF DropZeros(FracDigits(f, scale)) = <<>> THEN <<"0">>
    ELSE DropZeros(FracDigits(f, scale))

PyStr(v, scale) ==
    (IF v < 0 THEN <<"-">> ELSE <<>>)
    \o NatText(Abs(v) \div scale) \o <<".">> \o FracText(Abs(v) % scale, scale)

\* A cell as the checker takes it: a text as it is, a number through str.
CellRead(c) == IF c.kind = "text" THEN c.text ELSE PyStr(c.number, c.scale)

\* A range from row 2 on ("Dane!A2:K", "Pozycje!A2:J"; 9-10): the rows
\* below the column names.
RangeFrom2(sheet) ==
    [r \in 1..(Len(sheet) - 1) |->
        [c \in 1..Len(sheet[r + 1]) |-> CellRead(sheet[r + 1][c])]]

---------------------------------------------------------------------------
(* Invoices handed to the export                                           *)

MaxInvoices == 2

T_Acme == <<"A", "c", "m", "e">>
T_Cod == <<"C", "o", "d">>

ExportItem(net, vat) ==
    LineItem(T_Cod, Some(1000), Some(net), Some(net), Some(2300), Some(vat),
             Some(net + vat))

\* An invoice of items with the given header totals.
ExportInvoice(number, seller, buyer, total_net, items) ==
    Invoice(number, T_Today, seller, buyer, T_PLN,
            [net |-> total_net, vat |-> SumSeq(ItemField(items, "vat")),
             gross |-> total_net + SumSeq(ItemField(items, "vat"))],
            items)

ExportInvoices ==
    {ExportInvoice(num, seller, buyer, net, items) :
        num \in {T_A, T_B}, seller \in {T_Acme, <<>>}, buyer \in {T_x},
        net \in {20000}, items \in {<<ExportItem(20000, 4600)>>,
                                    <<ExportItem(15500, 3560), ExportItem(4500, 1040)>>,
                                    <<ExportItem(15500, 3560)>>}}
    \cup {ExportInvoice(T_A, T_Acme, <<>>, 20000, <<ExportItem(20000, 4600)>>),
          ParseInvoiceStub([stem |-> T_f1])}

InitExport ==
    /\ xinv \in SeqsUpTo(ExportInvoices, MaxInvoices) \ {<<>>}
    /\ book = NotRun
    /\ dane = <<>> /\ poz = <<>> /\ sres = NotRun
    /\ ValIdle /\ RateIdle /\ MoneyIdle /\ DocIdle /\ RunIdle

\* write_to_excel(invoices, OUT_XLSX) (416-446)
WriteToExcel ==
    /\ book = NotRun
    /\ book' = Some(Workbook(xinv))
    /\ UNCHANGED <<xinv, valVars, rateVars, moneyVars, docVars, sheetVars, runVars>>

\* main of the checker on the written sheets (29-74): the two ranges are
\* fetched, then checked as in CheckSheet.
ReadBack ==
    /\ book /= NotRun /\ sres = NotRun
    /\ dane' = RangeFrom2(book[1].Dane)
    /\ poz' = RangeFrom2(book[1].Pozycje)
    /\ \E missing \in {Missing(RangeFrom2(book[1].Dane))},
          sumy \in {Sumy(RangeFrom2(book[1].Pozycje))} :
          \E out \in {Verdict(missing, Mismatch(RangeFrom2(book[1].Dane), sumy, fp)) :
                        fp \in DimErrs} : sres' = Some(out)
    /\ UNCHANGED <<exportVars, valVars, rateVars, moneyVars, docVars, runVars>>

NextExport == WriteToExcel \/ ReadBack

SpecExport == InitExport /\ [][NextExport]_vars

---------------------------------------------------------------------------
(* C14                                                                     *)

\* An invoice the claim is about: it passes validate_totals and has a
\* number, an issue date, a seller and a currency.
Exportable(inv) ==
    /\ ValidateTotals(TotalsData(inv), DefaultTol, NoErr).ok
    /\ inv.number /= <<>> /\ inv.issue_date /= <<>>
    /\ inv.seller /= <<>> /\ inv.currency /= <<>>

\* C14: for every list of invoices that each pass validate_totals and have
\* a number, an issue date, a seller and a currency, the rows the export
\* writes, read back as the checker's header and line-item ranges, make the
\* checker report success.
C14_ExportRechecks ==
    (book /= NotRun /\ sres /= NotRun /\ \A n \in 1..Len(xinv) : Exportable(xinv[n])) =>
        sres[1].exit = 0

===========================================================================
